---- MODULE Spec2Model ----
(***************************************************************************)
(* A model of the EC schema class metadata of ecschema (ECClass,           *)
(* EntityClass, MixinClass, RelationshipClass, RelationshipConstraint).    *)
(*                                                                         *)
(* JavaScript values are tagged records: the tag t is what typeof and the  *)
(* truthiness test of an if look at.  Objects of the schema (classes,      *)
(* constraints) live in the variable heap and are referred to by Ref(id).  *)
(* A property name (always a string in the source) is a sequence of        *)
(* characters, so that toLowerCase is computed character by character.     *)
(***************************************************************************)
EXTENDS Naturals, Sequences, FiniteSets, TLC

VARIABLES heap, last

vars == <<heap, last>>

(***************************************************************************)
(* JavaScript values                                                       *)
(***************************************************************************)
Undef == [t |-> "undefined"]

Null == [t |-> "null"]

Str(s) == [t |-> "string", v |-> s]

Bool(b) == [t |-> "boolean", v |-> b]

Num(n) == [t |-> "number", v |-> n]

Arr(s) == [t |-> "array", v |-> s]

Enum(e) == [t |-> "enum", v |-> e]

Ref(id) == [t |-> "object", v |-> id]

\* What `if (x)` tests. Every enum member used here has a non-zero value.
Truthy(x) ==
  CASE x.t = "undefined" -> FALSE
    [] x.t = "null" -> FALSE
    [] x.t = "boolean" -> x.v
    [] x.t = "number" -> x.v # 0
    [] x.t = "string" -> x.v # ""
    [] OTHER -> TRUE

\* What `typeof(x) === "string"` tests.
IsString(x) == x.t = "string"

\* What Array.isArray(x) tests.
IsArray(x) == x.t = "array"

(***************************************************************************)
(* String.prototype.toLowerCase on a sequence of characters                *)
(***************************************************************************)
UpperChars == <<"A", "B", "C", "D", "E", "F", "G", "H", "I", "J", "K", "L", "M",
                "N", "O", "P", "Q", "R", "S", "T", "U", "V", "W", "X", "Y", "Z">>

LowerChars == <<"a", "b", "c", "d", "e", "f", "g", "h", "i", "j", "k", "l", "m",
                "n", "o", "p", "q", "r", "s", "t", "u", "v", "w", "x", "y", "z">>

\* The lower-case letter of every upper-case letter.
LowerOf ==
  [ch \in {UpperChars[i] : i \in DOMAIN UpperChars} |->
     LowerChars[CHOOSE i \in DOMAIN UpperChars : UpperChars[i] = ch]]

toLowerCaseChar(ch) == IF ch \in DOMAIN LowerOf THEN LowerOf[ch] ELSE ch

toLowerCase(s) == [i \in DOMAIN s |-> toLowerCaseChar(s[i])]

(***************************************************************************)
(* The result of a call: the heap it leaves, how it ended ("ok" or the     *)
(* status of the error thrown), and the value returned.                    *)
(***************************************************************************)
Return(h, v) == [heap |-> h, status |-> "ok", ret |-> v]

Throw(h, status) == [heap |-> h, status |-> status, ret |-> Undef]

\* A helper's outcome that is an exception rather than a value.
Thrown(status) == [t |-> "throw", v |-> status]

IsThrown(x) == x.t = "throw"

(***************************************************************************)
(* The owning schema (Schema and SchemaChild are not in this slice)        *)
(***************************************************************************)
\* The schema object, and the names of the children it holds.
TheSchema == Ref("TestSchema")

SchemaChildren == {"E1", "M1", "S1", "R1"}

\* The class each child is an instance of.
ChildClass ==
  [name \in SchemaChildren |->
     CASE name = "E1" -> "EntityClass"
       [] name = "M1" -> "MixinClass"
       [] name = "S1" -> "StructClass"
       [] name = "R1" -> "RelationshipClass"]

\* Schema.getChild<T>(name): the child of that name, or undefined.
getChild(name) == IF IsString(name) /\ name.v \in SchemaChildren THEN Ref(name.v) ELSE Undef

\* `schema.getChild(name)` where schema is what a SchemaChild holds: the schema
\* object, a schema name, or nothing. Only the object has a getChild method.
schemaGetChild(schema, name) ==
  IF schema = TheSchema THEN getChild(name) ELSE Thrown("TypeError")

\* What a SchemaChild's schema member can hold.
SchemaValues == {Undef, Str("TestSchema"), TheSchema}

(***************************************************************************)
(* ECObjects parsers (not in this slice)                                   *)
(***************************************************************************)
parsePrimitiveType(s) ==
  CASE s = "int" -> Enum("PrimitiveType.Integer")
    [] s = "string" -> Enum("PrimitiveType.String")
    [] OTHER -> Thrown("InvalidPrimitiveType")

parseStrengthDirection(s) ==
  CASE s = "forward" -> Enum("RelatedInstanceDirection.Forward")
    [] s = "backward" -> Enum("RelatedInstanceDirection.Backward")
    [] OTHER -> Thrown("InvalidStrengthDirection")

parseStrength(s) ==
  CASE s = "referencing" -> Enum("StrengthType.Referencing")
    [] s = "holding" -> Enum("StrengthType.Holding")
    [] s = "embedding" -> Enum("StrengthType.Embedding")
    [] OTHER -> Thrown("InvalidStrength")

parseClassModifier(s) ==
  CASE s = "None" -> Enum("ECClassModifier.None")
    [] s = "Abstract" -> Enum("ECClassModifier.Abstract")
    [] s = "Sealed" -> Enum("ECClassModifier.Sealed")
    [] OTHER -> Thrown("InvalidModifier")

(***************************************************************************)
(* Properties (Property.ts is not in this slice): the object the           *)
(* constructor makes. id tells one object from another: the class that     *)
(* owns it and its place in that class's list.                             *)
(***************************************************************************)
PrimitiveProperty(id, name, type) ==
  [t |-> "object", cls |-> "PrimitiveProperty", id |-> id, name |-> name, type |-> type]

PrimitiveArrayProperty(id, name, type) ==
  [t |-> "object", cls |-> "PrimitiveArrayProperty", id |-> id, name |-> name, type |-> type]

StructProperty(id, name, type) ==
  [t |-> "object", cls |-> "StructProperty", id |-> id, name |-> name, type |-> type]

StructArrayProperty(id, name, type) ==
  [t |-> "object", cls |-> "StructArrayProperty", id |-> id, name |-> name, type |-> type]

NavigationProperty(id, name, relationship, direction) ==
  [t |-> "object", cls |-> "NavigationProperty", id |-> id, name |-> name,
   type |-> <<relationship, direction>>]

(***************************************************************************)
(* ECClass                                                                 *)
(***************************************************************************)
\* constructor(name, modifier?) of ECClass; schema is the member the owner sets.
ECClass(cls, name, schema, modifier) ==
  [cls |-> cls, name |-> name, schema |-> schema,
   modifier |-> IF Truthy(modifier) THEN modifier ELSE Enum("ECClassModifier.None"),
   baseClass |-> Undef, properties |-> Undef]

\* Array.prototype.find: the first element that satisfies the test, or undefined.
find(arr, Test(_)) ==
  IF \E i \in DOMAIN arr : Test(arr[i])
  THEN arr[CHOOSE i \in DOMAIN arr : Test(arr[i]) /\ \A j \in 1..(i - 1) : ~Test(arr[j])]
  ELSE Undef

\* getProperty comparing the names as they are written.
getProperty_caseSensitive(h, self, name) ==
  IF ~Truthy(h[self].properties)
  THEN Undef
  ELSE LET Matches(prop) == prop.name = name
       IN find(h[self].properties.v, Matches)

\* getProperty going on to the base class when the class has no such property.
getProperty_inherited(h, self, name) ==
  LET Matches(prop) == toLowerCase(prop.name) = toLowerCase(name)
      local == IF ~Truthy(h[self].properties) THEN Undef
               ELSE find(h[self].properties.v, Matches)
      base == h[self].baseClass
  IN IF Truthy(local) \/ base.t # "object" \/ ~Truthy(h[base.v].properties)
     THEN local
     ELSE find(h[base.v].properties.v, Matches)

getProperty(h, self, name) ==
  IF ~Truthy(h[self].properties)
  THEN Undef
  ELSE LET Matches(prop) == toLowerCase(prop.name) = toLowerCase(name)
       IN find(h[self].properties.v, Matches)

\* The push putting the new property at the front of the list.
pushProperty_front(h, self, prop) ==
  LET cur == IF ~Truthy(h[self].properties) THEN <<>> ELSE h[self].properties.v
  IN [h EXCEPT ![self].properties = Arr(<<prop>> \o cur)]

\* `if (!this.properties) this.properties = []; this.properties.push(prop)`
pushProperty(h, self, prop) ==
  LET cur == IF ~Truthy(h[self].properties) THEN <<>> ELSE h[self].properties.v
  IN [h EXCEPT ![self].properties = Arr(Append(cur, prop))]

\* The id of the property object the next `new ...Property` of this class makes.
newPropertyId(h, self) ==
  <<self, IF ~Truthy(h[self].properties) THEN 1 ELSE Len(h[self].properties.v) + 1>>

createPrimitiveProperty(h, self, name, type) ==
  IF Truthy(getProperty(h, self, name))
  THEN Throw(h, "DuplicateProperty")
  ELSE LET correctType == IF Truthy(type) /\ IsString(type)
                          THEN parsePrimitiveType(type.v)
                          ELSE type
           primProp == PrimitiveProperty(newPropertyId(h, self), name, correctType)
       IN IF IsThrown(correctType)
          THEN Throw(h, correctType.v)
          ELSE Return(pushProperty(h, self, primProp), primProp)

createPrimitiveArrayProperty(h, self, name, type) ==
  IF Truthy(getProperty(h, self, name))
  THEN Throw(h, "DuplicateProperty")
  ELSE LET correctType == IF Truthy(type) /\ IsString(type)
                          THEN parsePrimitiveType(type.v)
                          ELSE type
           primArrProp == PrimitiveArrayProperty(newPropertyId(h, self), name, correctType)
       IN IF IsThrown(correctType)
          THEN Throw(h, correctType.v)
          ELSE Return(pushProperty(h, self, primArrProp), primArrProp)

createStructProperty(h, self, name, type) ==
  IF Truthy(getProperty(h, self, name))
  THEN Throw(h, "DuplicateProperty")
  ELSE LET correctType == IF IsString(type)
                          THEN schemaGetChild(h[self].schema, type)
                          ELSE type
           structProp == StructProperty(newPropertyId(h, self), name, correctType)
       IN IF IsThrown(correctType)
          THEN Throw(h, correctType.v)
          ELSE IF ~Truthy(correctType)
          THEN Throw(h, "ECOBJECTS_ERROR_BASE")
          ELSE Return(pushProperty(h, self, structProp), structProp)

createStructArrayProperty(h, self, name, type) ==
  IF Truthy(getProperty(h, self, name))
  THEN Throw(h, "DuplicateProperty")
  ELSE LET correctType == IF IsString(type)
                          THEN schemaGetChild(h[self].schema, type)
                          ELSE type
           structProp == StructArrayProperty(newPropertyId(h, self), name, correctType)
       IN IF IsThrown(correctType)
          THEN Throw(h, correctType.v)
          ELSE IF ~Truthy(correctType)
          THEN Throw(h, "ECOBJECTS_ERROR_BASE")
          ELSE Return(pushProperty(h, self, structProp), structProp)

\* createNavigationProperty without the look for a property of that name.
createNavigationProperty_unchecked(h, self, name, relationship, direction) ==
  IF IsString(relationship)
  THEN Throw(h, "ECOBJECTS_ERROR_BASE")
  ELSE LET dir == IF IsString(direction) THEN parseStrengthDirection(direction.v) ELSE direction
           navProp == NavigationProperty(newPropertyId(h, self), name, relationship, dir)
       IN IF IsThrown(dir)
          THEN Throw(h, dir.v)
          ELSE Return(pushProperty(h, self, navProp), navProp)

\* createNavigationProperty of EntityClass and of RelationshipClass: the two
\* methods have the same body.
createNavigationProperty(h, self, name, relationship, direction) ==
  IF Truthy(getProperty(h, self, name))
  THEN Throw(h, "DuplicateProperty")
  ELSE IF IsString(relationship)
  THEN Throw(h, "ECOBJECTS_ERROR_BASE")
  ELSE LET dir == IF IsString(direction) THEN parseStrengthDirection(direction.v) ELSE direction
           navProp == NavigationProperty(newPropertyId(h, self), name, relationship, dir)
       IN IF IsThrown(dir)
          THEN Throw(h, dir.v)
          ELSE Return(pushProperty(h, self, navProp), navProp)

\* SchemaChild.fromJson (not in this slice) fills in members this model does not hold.
SchemaChild_fromJson(h, self, jsonObj) == Return(h, Undef)

ECClass_fromJson(h, self, jsonObj) ==
  LET super == SchemaChild_fromJson(h, self, jsonObj)
      modifier == IF Truthy(jsonObj.modifier)
                  THEN parseClassModifier(jsonObj.modifier.v)
                  ELSE super.heap[self].modifier
      h1 == [super.heap EXCEPT ![self].modifier = modifier]
      baseClass == schemaGetChild(h1[self].schema, jsonObj.baseClass)
  IN IF super.status # "ok" THEN super
     ELSE IF IsThrown(modifier) THEN Throw(super.heap, modifier.v)
     ELSE IF ~Truthy(jsonObj.baseClass) THEN Return(h1, Undef)
     ELSE IF ~IsString(jsonObj.baseClass) THEN Throw(h1, "InvalidECJson")
     ELSE IF Truthy(h1[self].schema) /\ ~IsString(h1[self].schema)
     THEN IF ~Truthy(baseClass)
          THEN Throw(h1, "InvalidECJson")
          ELSE Return([h1 EXCEPT ![self].baseClass = baseClass], Undef)
     ELSE Return([h1 EXCEPT ![self].baseClass = jsonObj.baseClass], Undef)

(***************************************************************************)
(* EntityClass                                                             *)
(***************************************************************************)
EntityClass(name, schema, modifier) ==
  ECClass("EntityClass", name, schema, modifier) @@ [mixins |-> Undef]

\* The closure loadMixin of EntityClass.fromJson.
loadMixin(h, self, mixinFullName) ==
  LET tempMixin == schemaGetChild(h[self].schema, mixinFullName)
      cur == IF ~Truthy(h[self].mixins) THEN <<>> ELSE h[self].mixins.v
  IN IF IsThrown(tempMixin) THEN Throw(h, tempMixin.v)
     ELSE IF ~Truthy(tempMixin) THEN Throw(h, "InvalidECJson")
     ELSE Return([h EXCEPT ![self].mixins = Arr(Append(cur, tempMixin))], Undef)

\* jsonObj.mixin.forEach(loadMixin): an exception ends the loop.
RECURSIVE forEachLoadMixin(_, _, _)
forEachLoadMixin(h, self, names) ==
  IF names = <<>> THEN Return(h, Undef)
  ELSE LET r == loadMixin(h, self, Head(names))
       IN IF r.status # "ok" THEN r ELSE forEachLoadMixin(r.heap, self, Tail(names))

EntityClass_fromJson(h, self, jsonObj) ==
  LET super == ECClass_fromJson(h, self, jsonObj)
  IN IF super.status # "ok" THEN super
     ELSE IF ~Truthy(jsonObj.mixin) THEN Return(super.heap, Undef)
     ELSE IF IsString(jsonObj.mixin) THEN loadMixin(super.heap, self, jsonObj.mixin)
     ELSE IF IsArray(jsonObj.mixin) THEN forEachLoadMixin(super.heap, self, jsonObj.mixin.v)
     ELSE Throw(super.heap, "InvalidECJson")

(***************************************************************************)
(* MixinClass                                                              *)
(***************************************************************************)
MixinClass(name, schema, modifier) ==
  ECClass("MixinClass", name, schema, modifier) @@ [appliesTo |-> Undef]

MixinClass_fromJson(h, self, jsonObj) ==
  LET super == ECClass_fromJson(h, self, jsonObj)
      tmpClass == schemaGetChild(super.heap[self].schema, jsonObj.appliesTo)
  IN IF super.status # "ok" THEN super
     ELSE IF ~Truthy(jsonObj.appliesTo) THEN Return(super.heap, Undef)
     ELSE IF IsThrown(tmpClass) THEN Throw(super.heap, tmpClass.v)
     ELSE IF ~Truthy(tmpClass) THEN Throw(super.heap, "InvalidECJson")
     ELSE Return([super.heap EXCEPT ![self].appliesTo = tmpClass], Undef)

(***************************************************************************)
(* RelationshipMultiplicity (ECObjects, not in this slice)                 *)
(***************************************************************************)
RelationshipMultiplicity(lowerLimit, upperLimit) ==
  [t |-> "object", cls |-> "RelationshipMultiplicity",
   lowerLimit |-> lowerLimit, upperLimit |-> upperLimit]

zeroOne == RelationshipMultiplicity("0", "1")

\* RelationshipMultiplicity.fromString: the multiplicity, or undefined.
fromString(str) ==
  CASE str = Str("(0..1)") -> zeroOne
    [] str = Str("(0..*)") -> RelationshipMultiplicity("0", "*")
    [] str = Str("(1..1)") -> RelationshipMultiplicity("1", "1")
    [] str = Str("(1..*)") -> RelationshipMultiplicity("1", "*")
    [] OTHER -> Undef

(***************************************************************************)
(* RelationshipConstraint                                                  *)
(***************************************************************************)
RelationshipConstraint(relClass, relEnd) ==
  [cls |-> "RelationshipConstraint",
   relationshipEnd |-> relEnd,
   polymorphic |-> Bool(FALSE),
   multiplicity |-> zeroOne,
   relationshipClass |-> relClass,
   abstractConstraint_ |-> Undef,
   roleLabel |-> Undef,
   constraintClasses |-> Undef]

\* The getter taking the first constraint class however many there are.
abstractConstraint_firstClass(h, self) ==
  IF Truthy(h[self].abstractConstraint_)
  THEN h[self].abstractConstraint_
  ELSE IF Truthy(h[self].constraintClasses) /\ Len(h[self].constraintClasses.v) >= 1
  THEN h[self].constraintClasses.v[1]
  ELSE h[self].abstractConstraint_

\* get abstractConstraint()
abstractConstraint(h, self) ==
  IF Truthy(h[self].abstractConstraint_)
  THEN h[self].abstractConstraint_
  ELSE IF Truthy(h[self].constraintClasses) /\ Len(h[self].constraintClasses.v) = 1
  THEN h[self].constraintClasses.v[1]
  ELSE h[self].abstractConstraint_

\* set abstractConstraint(abstractConstraint)
setAbstractConstraint(h, self, value) ==
  Return([h EXCEPT ![self].abstractConstraint_ = value], Undef)

\* The casts of addClass are erased when it runs: areEntityConstraints is
\* `undefined !== this.constraintClasses`, and both branches of the last if push.
addClass(h, self, constraint) ==
  LET areEntityConstraints == h[self].constraintClasses # Undef
      cur == IF ~Truthy(h[self].constraintClasses) THEN <<>> ELSE h[self].constraintClasses.v
  IN IF areEntityConstraints /\ constraint = Undef
     THEN Throw(h, "InvalidECJson")
     ELSE Return([h EXCEPT ![self].constraintClasses = Arr(Append(cur, constraint))], Undef)

\* The callback of jsonObj.constraintClasses.forEach, and the loop: an
\* exception ends it.
RECURSIVE forEachConstraintClass(_, _, _)
forEachConstraintClass(h, self, names) ==
  IF names = <<>> THEN Return(h, Undef)
  ELSE LET schema == h[h[self].relationshipClass.v].schema
           tempConstraintClass == schemaGetChild(schema, Head(names))
           r == IF Truthy(schema) /\ ~IsString(schema)
                THEN IF ~Truthy(tempConstraintClass)
                     THEN Throw(h, "InvalidECJson")
                     ELSE addClass(h, self, tempConstraintClass)
                ELSE Return(h, Undef)
       IN IF r.status # "ok" THEN r ELSE forEachConstraintClass(r.heap, self, Tail(names))

RelationshipConstraint_fromJson(h, self, jsonObj) ==
  LET h1 == IF Truthy(jsonObj.roleLabel)
            THEN [h EXCEPT ![self].roleLabel = jsonObj.roleLabel] ELSE h
      h2 == IF Truthy(jsonObj.polymorphic)
            THEN [h1 EXCEPT ![self].polymorphic = jsonObj.polymorphic] ELSE h1
      multTmp == fromString(jsonObj.multiplicity)
      h3 == IF Truthy(jsonObj.multiplicity)
            THEN [h2 EXCEPT ![self].multiplicity = multTmp] ELSE h2
      schema == h[h[self].relationshipClass.v].schema
      tempAbstractConstraint == schemaGetChild(schema, jsonObj.abstractConstraint)
      h4 == IF Truthy(jsonObj.abstractConstraint) /\ Truthy(schema) /\ ~IsString(schema)
            THEN setAbstractConstraint(h3, self, tempAbstractConstraint).heap ELSE h3
  IN IF Truthy(jsonObj.multiplicity) /\ ~Truthy(multTmp)
     THEN Throw(h2, "InvalidMultiplicity")
     ELSE IF Truthy(jsonObj.abstractConstraint) /\ ~IsString(jsonObj.abstractConstraint)
     THEN Throw(h3, "InvalidECJson")
     ELSE IF Truthy(jsonObj.abstractConstraint) /\ Truthy(schema) /\ ~IsString(schema)
             /\ ~Truthy(tempAbstractConstraint)
     THEN Throw(h3, "InvalidECJson")
     ELSE IF ~Truthy(jsonObj.constraintClasses) THEN Return(h4, Undef)
     ELSE IF ~IsArray(jsonObj.constraintClasses) THEN Throw(h4, "InvalidECJson")
     ELSE forEachConstraintClass(h4, self, jsonObj.constraintClasses.v)

(***************************************************************************)
(* RelationshipClass                                                       *)
(***************************************************************************)
\* The ids of the two constraint objects the constructor of `name` makes.
sourceOf(name) == name \o ".source"

targetOf(name) == name \o ".target"

\* The object `new RelationshipClass(name, strength, strengthDirection, modifier)` is.
RelationshipClass(name, schema, strength, strengthDirection, modifier) ==
  ECClass("RelationshipClass", name, schema, modifier) @@
  [strength |-> IF Truthy(strength) THEN strength ELSE Enum("StrengthType.Referencing"),
   strengthDirection |-> IF Truthy(strengthDirection) THEN strengthDirection
                         ELSE Enum("RelatedInstanceDirection.Forward"),
   source |-> Ref(sourceOf(name)),
   target |-> Ref(targetOf(name))]

\* The constructor making both constraints of the source end.
newRelationshipClass_bothSource(name, schema, strength, strengthDirection, modifier) ==
  (name :> RelationshipClass(name, schema, strength, strengthDirection, modifier)) @@
  (sourceOf(name) :> RelationshipConstraint(Ref(name), Enum("RelationshipEnd.Source"))) @@
  (targetOf(name) :> RelationshipConstraint(Ref(name), Enum("RelationshipEnd.Source")))

\* The objects the constructor adds to the heap: the class and its two constraints.
newRelationshipClass(name, schema, strength, strengthDirection, modifier) ==
  (name :> RelationshipClass(name, schema, strength, strengthDirection, modifier)) @@
  (sourceOf(name) :> RelationshipConstraint(Ref(name), Enum("RelationshipEnd.Source"))) @@
  (targetOf(name) :> RelationshipConstraint(Ref(name), Enum("RelationshipEnd.Target")))

RelationshipClass_fromJson(h, self, jsonObj) ==
  LET super == ECClass_fromJson(h, self, jsonObj)
      strength == IF Truthy(jsonObj.strength)
                  THEN parseStrength(jsonObj.strength.v) ELSE super.heap[self].strength
      h1 == [super.heap EXCEPT ![self].strength = strength]
      strengthDirection == IF Truthy(jsonObj.strengthDirection)
                           THEN parseStrengthDirection(jsonObj.strengthDirection.v)
                           ELSE h1[self].strengthDirection
      h2 == [h1 EXCEPT ![self].strengthDirection = strengthDirection]
  IN IF super.status # "ok" THEN super
     ELSE IF IsThrown(strength) THEN Throw(super.heap, strength.v)
     ELSE IF IsThrown(strengthDirection) THEN Throw(h1, strengthDirection.v)
     ELSE Return(h2, Undef)

(***************************************************************************)
(* Calls. last is the call that was made last: the operation, the object   *)
(* it was made on, its argument, how it ended and what it returned.        *)
(***************************************************************************)
Call(op, self, arg, r) ==
  /\ heap' = r.heap
  /\ last' = [op |-> op, self |-> self, arg |-> arg, status |-> r.status, ret |-> r.ret]

Constructed == [op |-> "new", self |-> "", arg |-> Undef, status |-> "ok", ret |-> Undef]

\* A call of a method that takes a name and a type: the type is recorded too.
CallTyped(op, self, name, type, r) ==
  /\ heap' = r.heap
  /\ last' = [op |-> op, self |-> self, arg |-> name, type |-> type,
              status |-> r.status, ret |-> r.ret]

\* The most properties a class is given.
MaxProps == 3

PropertyCount(self) ==
  IF ~Truthy(heap[self].properties) THEN 0 ELSE Len(heap[self].properties.v)

PropNames == {<<"I", "d">>, <<"i", "D">>, <<"x">>}

PrimitiveTypeInputs == {Str("int"), Enum("PrimitiveType.Integer"), Str("bogus")}

StructTypeInputs == {Str("S1"), Ref("S1"), Str("Nope")}

RelationshipInputs == {Ref("R1"), Str("R1")}

DirectionInputs == {Str("forward")}

GetProperty(self, name) ==
  Call("getProperty", self, name, Return(heap, getProperty(heap, self, name)))

CreatePrimitiveProperty(self, name, type) ==
  /\ PropertyCount(self) < MaxProps
  /\ Call("createPrimitiveProperty", self, name,
          createPrimitiveProperty(heap, self, name, type))

CreatePrimitiveArrayProperty(self, name, type) ==
  /\ PropertyCount(self) < MaxProps
  /\ Call("createPrimitiveArrayProperty", self, name,
          createPrimitiveArrayProperty(heap, self, name, type))

CreateStructProperty(self, name, type) ==
  /\ PropertyCount(self) < MaxProps
  /\ CallTyped("createStructProperty", self, name, type,
               createStructProperty(heap, self, name, type))

CreateStructArrayProperty(self, name, type) ==
  /\ PropertyCount(self) < MaxProps
  /\ CallTyped("createStructArrayProperty", self, name, type,
               createStructArrayProperty(heap, self, name, type))

CreateNavigationProperty(self, name, relationship, direction) ==
  /\ PropertyCount(self) < MaxProps
  /\ heap[self].cls \in {"EntityClass", "RelationshipClass"}
  /\ Call("createNavigationProperty", self, name,
          createNavigationProperty(heap, self, name, relationship, direction))

\* What a JSON object holds when a field is absent from it.
NoJson ==
  [modifier |-> Undef, baseClass |-> Undef, mixin |-> Undef, appliesTo |-> Undef,
   strength |-> Undef, strengthDirection |-> Undef]

\* The most mixins an entity class is given.
MaxMixins == 2

MixinCount(h, self) == IF ~Truthy(h[self].mixins) THEN 0 ELSE Len(h[self].mixins.v)

EntityClassFromJson(self, jsonObj) ==
  /\ MixinCount(EntityClass_fromJson(heap, self, jsonObj).heap, self) <= MaxMixins
  /\ Call("fromJson", self, jsonObj, EntityClass_fromJson(heap, self, jsonObj))

MixinClassFromJson(self, jsonObj) ==
  Call("fromJson", self, jsonObj, MixinClass_fromJson(heap, self, jsonObj))

(***************************************************************************)
(* The properties of an entity class E1 and a relationship class R1 of the *)
(* schema. E1 is given properties of every kind, R1 navigation properties  *)
(* of the names RelPropNames; E1 can be given R1 as its base class.        *)
(***************************************************************************)
PropClasses == {"E1", "R1"}

RelPropNames == {<<"I", "d">>, <<"i", "D">>}

BaseClassJson == [NoJson EXCEPT !.baseClass = Str("R1")]

InitProperties ==
  /\ heap = ("E1" :> EntityClass("E1", TheSchema, Undef)) @@
            newRelationshipClass("R1", TheSchema, Undef, Undef, Undef)
  /\ last = Constructed

NextProperties ==
  \/ \E self \in PropClasses, name \in PropNames : GetProperty(self, name)
  \/ \E name \in RelPropNames, relationship \in RelationshipInputs, direction \in DirectionInputs :
       CreateNavigationProperty("R1", name, relationship, direction)
  \/ \E name \in PropNames :
       \/ \E relationship \in RelationshipInputs, direction \in DirectionInputs :
            CreateNavigationProperty("E1", name, relationship, direction)
       \/ \E type \in PrimitiveTypeInputs : CreatePrimitiveProperty("E1", name, type)
       \/ \E type \in PrimitiveTypeInputs : CreatePrimitiveArrayProperty("E1", name, type)
       \/ \E type \in StructTypeInputs : CreateStructProperty("E1", name, type)
       \/ \E type \in StructTypeInputs : CreateStructArrayProperty("E1", name, type)
  \/ EntityClassFromJson("E1", BaseClassJson)

SpecProperties == InitProperties /\ [][NextProperties]_vars

(***************************************************************************)
(* Claims about the properties of a class                                  *)
(***************************************************************************)
CreateOps ==
  {"createPrimitiveProperty", "createPrimitiveArrayProperty", "createStructProperty",
   "createStructArrayProperty", "createNavigationProperty"}

\* The properties of a class as a sequence: none when the member is unset.
PropertiesOf(h, self) == IF h[self].properties = Undef THEN <<>> ELSE h[self].properties.v

SameNameIgnoringCase(a, b) == toLowerCase(a) = toLowerCase(b)

\* The class holds a property of that name, whatever the case of its letters.
HoldsName(h, self, name) ==
  \E i \in DOMAIN PropertiesOf(h, self) :
    SameNameIgnoringCase(PropertiesOf(h, self)[i].name, name)

\* C1: a create*Property call (of any of the five kinds, on an entity or a
\* relationship class) for a name the class already holds, case ignored, fails
\* with DuplicateProperty and leaves the class's properties, and everything
\* else, as they were.
C1_DuplicateFails ==
  [][(last'.op \in CreateOps /\ HoldsName(heap, last'.self, last'.arg))
       => (last'.status = "DuplicateProperty" /\ heap' = heap)]_vars

\* A createNavigationProperty on the relationship class failed as a duplicate
\* of a property whose name is written in another case.
C1_Witness ==
  /\ last.op = "createNavigationProperty"
  /\ last.self = "R1"
  /\ last.status = "DuplicateProperty"
  /\ \A i \in DOMAIN PropertiesOf(heap, "R1") : PropertiesOf(heap, "R1")[i].name # last.arg

\* C2: no two properties of a class have names that are equal when case is
\* ignored, whatever create*Property calls were made.
C2_UniqueNames ==
  \A self \in PropClasses :
    \A i, j \in DOMAIN PropertiesOf(heap, self) :
      i # j => ~SameNameIgnoringCase(PropertiesOf(heap, self)[i].name,
                                     PropertiesOf(heap, self)[j].name)

\* The entity class holds two properties and a create call on it has just
\* failed as a duplicate.
C2_Witness ==
  /\ Len(PropertiesOf(heap, "E1")) = 2
  /\ last.op \in CreateOps
  /\ last.self = "E1"
  /\ last.status = "DuplicateProperty"

\* C3: getProperty returns the one property of the class's own list whose
\* name equals the argument when case is ignored, and undefined when the
\* list is unset or holds no such name, whatever the base class holds.
C3_GetPropertyLocal ==
  last.op = "getProperty" =>
    LET props == PropertiesOf(heap, last.self)
    IN IF HoldsName(heap, last.self, last.arg)
       THEN /\ \E i \in DOMAIN props : props[i] = last.ret
            /\ \A i \in DOMAIN props :
                 SameNameIgnoringCase(props[i].name, last.arg) <=> props[i] = last.ret
       ELSE last.ret = Undef

\* getProperty on E1 returned undefined for a name that E1's base class holds.
C3_Witness ==
  /\ last.op = "getProperty"
  /\ last.self = "E1"
  /\ heap["E1"].baseClass = Ref("R1")
  /\ HoldsName(heap, "R1", last.arg)
  /\ PropertiesOf(heap, "E1") # <<>>
  /\ last.ret = Undef

\* getProperty returned a property whose name is written in another case than
\* the argument.
C3_WitnessOtherCase ==
  /\ last.op = "getProperty"
  /\ last.ret # Undef
  /\ last.ret.name # last.arg

\* The struct-typed create operations, whose type may be given as a name.
StructCreateOps == {"createStructProperty", "createStructArrayProperty"}

\* C12: every create*Property call that succeeds appends exactly one new
\* property of the requested name at the end of the class's list, leaves the
\* properties created before as they were and in their order, and returns
\* the very property it appended; a createStructProperty or
\* createStructArrayProperty call whose type is a name the owning schema
\* cannot resolve fails and appends nothing.
C12_CreateAppends ==
  [][last'.op \in CreateOps
     => /\ last'.status = "ok"
           => /\ last'.ret.name = last'.arg
              /\ PropertiesOf(heap', last'.self)
                   = Append(PropertiesOf(heap, last'.self), last'.ret)
              /\ \A i \in DOMAIN PropertiesOf(heap, last'.self) :
                   PropertiesOf(heap, last'.self)[i] # last'.ret
              /\ \A other \in PropClasses \ {last'.self} :
                   heap'[other].properties = heap[other].properties
        /\ (/\ last'.op \in StructCreateOps
            /\ IsString(last'.type)
            /\ schemaGetChild(heap[last'.self].schema, last'.type) = Undef)
           => /\ last'.status # "ok"
              /\ heap'[last'.self].properties = heap[last'.self].properties]_vars

\* A createStructArrayProperty with the type given as a name succeeded on the
\* entity class, and returned the property now last in the list, behind a
\* primitive property created before it.
C12_Witness ==
  /\ last.op = "createStructArrayProperty"
  /\ last.self = "E1"
  /\ last.status = "ok"
  /\ last.type = Str("S1")
  /\ Len(PropertiesOf(heap, "E1")) = 2
  /\ PropertiesOf(heap, "E1")[2] = last.ret
  /\ PropertiesOf(heap, "E1")[1].cls = "PrimitiveProperty"
  /\ PropertiesOf(heap, "R1") # <<>>

\* A createStructProperty for a name the schema does not hold failed on an
\* entity class that already holds a property.
C12_WitnessUnresolved ==
  /\ last.op = "createStructProperty"
  /\ last.self = "E1"
  /\ last.type = Str("Nope")
  /\ last.status = "ECOBJECTS_ERROR_BASE"
  /\ Len(PropertiesOf(heap, "E1")) = 1

(***************************************************************************)
(* fromJson of an entity class E1 and a mixin class M1, which may or may   *)
(* not have been given to a schema                                         *)
(***************************************************************************)
EntityJsons ==
  {[NoJson EXCEPT !.modifier = m, !.baseClass = b, !.mixin = x] :
     m \in {Undef, Str("Sealed")},
     b \in {Undef, Str("S1"), Str("Nope"), Num(5)},
     x \in {Undef, Str("M1"), Arr(<<Str("M1"), Str("S1")>>), Arr(<<Str("M1"), Str("Nope")>>),
            Num(5), Num(0)}}

MixinJsons ==
  {[NoJson EXCEPT !.baseClass = b, !.appliesTo = a] :
     b \in {Undef, Num(5)},
     a \in {Undef, Str("E1"), Str("S1"), Str("Nope"), Str("")}}

InitJson ==
  /\ \E schema \in SchemaValues :
       heap = ("E1" :> EntityClass("E1", schema, Undef)) @@
              ("M1" :> MixinClass("M1", schema, Undef))
  /\ last = Constructed

NextJson ==
  \/ \E jsonObj \in EntityJsons : EntityClassFromJson("E1", jsonObj)
  \/ \E jsonObj \in MixinJsons : MixinClassFromJson("M1", jsonObj)

SpecJson == InitJson /\ [][NextJson]_vars

(***************************************************************************)
(* Claims about fromJson of the classes                                    *)
(***************************************************************************)
\* The field is in the JSON object.
Present(x) == x # Undef

\* The names a mixin field gives: the one string, or the entries of the array.
MixinNames(mixin) == IF IsString(mixin) THEN <<mixin>> ELSE mixin.v

MixinsOf(h, self) == IF h[self].mixins = Undef THEN <<>> ELSE h[self].mixins.v

\* C7: EntityClass.fromJson of a class of a schema, with a mixin field (and
\* the fields of the base class in order): a string or an array of names
\* that all resolve appends the resolved children to mixins in the order
\* given; a name that does not resolve, or a field that is neither a string
\* nor an array, makes the call fail with InvalidECJson.
C7_MixinClaim ==
  [][(/\ last'.op = "fromJson"
      /\ last'.self = "E1"
      /\ heap["E1"].schema = TheSchema
      /\ ECClass_fromJson(heap, "E1", last'.arg).status = "ok"
      /\ Present(last'.arg.mixin))
     => LET mixin == last'.arg.mixin
        IN IF IsString(mixin) \/ IsArray(mixin)
           THEN IF \A i \in DOMAIN MixinNames(mixin) : getChild(MixinNames(mixin)[i]) # Undef
                THEN /\ last'.status = "ok"
                     /\ MixinsOf(heap', "E1") =
                          MixinsOf(heap, "E1") \o
                          [i \in DOMAIN MixinNames(mixin) |-> getChild(MixinNames(mixin)[i])]
                ELSE last'.status = "InvalidECJson"
           ELSE last'.status = "InvalidECJson"]_vars

\* C8: ECClass.fromJson with a baseClass field: a value that is not a
\* string, or a name the owning schema does not resolve, makes the call fail
\* with InvalidECJson; a name that resolves makes baseClass the resolved
\* class; after a call that succeeded baseClass is a class object.
C8_BaseClassClaim ==
  (last.op = "fromJson" /\ Present(last.arg.baseClass))
    => LET b == last.arg.baseClass
           self == last.self
       IN /\ IF IsString(b) /\ heap[self].schema = TheSchema /\ getChild(b) # Undef
             THEN last.status = "ok" => heap[self].baseClass = getChild(b)
             ELSE last.status = "InvalidECJson"
          /\ last.status = "ok" => heap[self].baseClass.t = "object"

\* C9: MixinClass.fromJson of a class of a schema, with an appliesTo name
\* (and the fields of the base class in order): a name that resolves to an
\* entity class makes appliesTo that class; a name that does not resolve
\* makes the call fail with InvalidECJson and leaves appliesTo as it was.
C9_AppliesToClaim ==
  [][(/\ last'.op = "fromJson"
      /\ last'.self = "M1"
      /\ heap["M1"].schema = TheSchema
      /\ ECClass_fromJson(heap, "M1", last'.arg).status = "ok"
      /\ IsString(last'.arg.appliesTo))
     => LET a == last'.arg.appliesTo
        IN IF getChild(a) = Undef
           THEN /\ last'.status = "InvalidECJson"
                /\ heap'["M1"].appliesTo = heap["M1"].appliesTo
           ELSE ChildClass[a.v] = "EntityClass" => heap'["M1"].appliesTo = getChild(a)]_vars

(***************************************************************************)
(* The source constraint of a relationship class R1, which may or may not  *)
(* have been given to a schema                                             *)
(***************************************************************************)
\* The most constraint classes a constraint is given.
MaxConstraintClasses == 2

ConstraintClassesOf(h, self) ==
  IF h[self].constraintClasses = Undef THEN <<>> ELSE h[self].constraintClasses.v

AddClass(self, constraint) ==
  /\ Len(ConstraintClassesOf(heap, self)) < MaxConstraintClasses
  /\ Call("addClass", self, constraint, addClass(heap, self, constraint))

SetAbstractConstraint(self, value) ==
  Call("set abstractConstraint", self, value, setAbstractConstraint(heap, self, value))

GetAbstractConstraint(self) ==
  Call("get abstractConstraint", self, Undef, Return(heap, abstractConstraint(heap, self)))

ConstraintFromJson(self, jsonObj) ==
  /\ Len(ConstraintClassesOf(RelationshipConstraint_fromJson(heap, self, jsonObj).heap, self))
       <= MaxConstraintClasses
  /\ Call("fromJson", self, jsonObj, RelationshipConstraint_fromJson(heap, self, jsonObj))

\* What a constraint's JSON object holds when a field is absent from it.
NoConstraintJson ==
  [roleLabel |-> Undef, polymorphic |-> Undef, multiplicity |-> Undef,
   abstractConstraint |-> Undef, constraintClasses |-> Undef]

\* The JSON objects of one field.
OneFieldJsons ==
  {[NoConstraintJson EXCEPT !.roleLabel = Str("lbl")]}
  \cup {[NoConstraintJson EXCEPT !.polymorphic = x] : x \in {Bool(TRUE), Bool(FALSE)}}
  \cup {[NoConstraintJson EXCEPT !.multiplicity = x] :
          x \in {Str("(0..*)"), Str("bad"), Str("")}}
  \cup {[NoConstraintJson EXCEPT !.abstractConstraint = x] :
          x \in {Str("E1"), Str("Nope"), Num(5)}}
  \cup {[NoConstraintJson EXCEPT !.constraintClasses = x] :
          x \in {Arr(<<Str("E1"), Str("R1")>>), Arr(<<Str("Nope")>>), Str("E1")}}

\* The empty object, the objects of one field, and those with a multiplicity too.
ConstraintJsons ==
  {NoConstraintJson} \cup OneFieldJsons
  \cup {[j EXCEPT !.multiplicity = x] : j \in OneFieldJsons, x \in {Str("(0..*)"), Str("bad")}}

ConstraintInputs == {Undef, Ref("E1"), Ref("R1")}

InitConstraint ==
  /\ \E schema \in SchemaValues :
       heap = newRelationshipClass("R1", schema, Undef, Undef, Undef)
  /\ last = Constructed

NextConstraint ==
  \/ \E constraint \in ConstraintInputs : AddClass(sourceOf("R1"), constraint)
  \/ \E value \in ConstraintInputs : SetAbstractConstraint(sourceOf("R1"), value)
  \/ GetAbstractConstraint(sourceOf("R1"))
  \/ \E jsonObj \in ConstraintJsons : ConstraintFromJson(sourceOf("R1"), jsonObj)

SpecConstraint == InitConstraint /\ [][NextConstraint]_vars

(***************************************************************************)
(* Claims about a relationship constraint                                  *)
(***************************************************************************)
\* The class a value is an instance of, when it is a child of the schema.
KindOf(x) == IF x.t = "object" /\ x.v \in SchemaChildren THEN ChildClass[x.v] ELSE "none"

\* The constraint holds a constraint class of that kind.
HoldsKind(h, self, kind) ==
  \E i \in DOMAIN ConstraintClassesOf(h, self) : KindOf(ConstraintClassesOf(h, self)[i]) = kind

\* C4: addClass of a relationship class on a constraint that holds entity
\* classes, and of an entity class on one that holds relationship classes,
\* fails with InvalidECJson and appends nothing.
C4_AddClassClaim ==
  [][(/\ last'.op = "addClass"
      /\ \/ HoldsKind(heap, last'.self, "EntityClass") /\ KindOf(last'.arg) = "RelationshipClass"
         \/ HoldsKind(heap, last'.self, "RelationshipClass") /\ KindOf(last'.arg) = "EntityClass")
     => (last'.status = "InvalidECJson" /\ heap' = heap)]_vars

\* C5: the abstractConstraint getter returns the abstract constraint that
\* was set when one was set; otherwise the one constraint class when there is
\* exactly one; otherwise undefined.
C5_AbstractConstraint ==
  last.op = "get abstractConstraint" =>
    LET c == heap[last.self]
    IN IF c.abstractConstraint_ # Undef
       THEN last.ret = c.abstractConstraint_
       ELSE IF Len(ConstraintClassesOf(heap, last.self)) = 1
       THEN last.ret = ConstraintClassesOf(heap, last.self)[1]
       ELSE last.ret = Undef

\* The getter returned undefined for a constraint of two constraint classes
\* and no abstract constraint set.
C5_Witness ==
  /\ last.op = "get abstractConstraint"
  /\ heap[last.self].abstractConstraint_ = Undef
  /\ Len(ConstraintClassesOf(heap, last.self)) = 2
  /\ last.ret = Undef

\* The getter returned the one constraint class of a constraint with no
\* abstract constraint set.
C5_WitnessSingle ==
  /\ last.op = "get abstractConstraint"
  /\ heap[last.self].abstractConstraint_ = Undef
  /\ Len(ConstraintClassesOf(heap, last.self)) = 1
  /\ last.ret = Ref("E1")

\* C10: RelationshipConstraint.fromJson with a multiplicity string: a
\* string that parses makes multiplicity the parsed value; one that does not
\* makes the call fail with InvalidMultiplicity and leaves multiplicity as
\* it was.
C10_MultiplicityClaim ==
  [][(/\ last'.op = "fromJson"
      /\ heap[last'.self].cls = "RelationshipConstraint"
      /\ IsString(last'.arg.multiplicity))
     => IF fromString(last'.arg.multiplicity) # Undef
        THEN heap'[last'.self].multiplicity = fromString(last'.arg.multiplicity)
        ELSE /\ last'.status = "InvalidMultiplicity"
             /\ heap'[last'.self].multiplicity = heap[last'.self].multiplicity]_vars

\* C11: RelationshipConstraint.fromJson copies roleLabel and polymorphic
\* whenever the input carries them, whatever the constraint held before:
\* after the call polymorphic equals the input's polymorphic, and roleLabel
\* the input's roleLabel; a field the input does not carry leaves its
\* attribute as it was.
C11_CopiesFields ==
  [][(/\ last'.op = "fromJson"
      /\ heap[last'.self].cls = "RelationshipConstraint")
     => /\ heap'[last'.self].polymorphic =
             IF Present(last'.arg.polymorphic) THEN last'.arg.polymorphic
             ELSE heap[last'.self].polymorphic
        /\ heap'[last'.self].roleLabel =
             IF Present(last'.arg.roleLabel) THEN last'.arg.roleLabel
             ELSE heap[last'.self].roleLabel]_vars

(***************************************************************************)
(* A relationship class R1 of the schema, from its construction on         *)
(***************************************************************************)
RelationshipClassFromJson(self, jsonObj) ==
  Call("fromJson", self, jsonObj, RelationshipClass_fromJson(heap, self, jsonObj))

StrengthArgs == {Undef, Enum("StrengthType.Holding")}

StrengthDirectionArgs == {Undef, Enum("RelatedInstanceDirection.Backward")}

RelationshipJsons ==
  {[NoJson EXCEPT !.strength = x, !.strengthDirection = d] :
     x \in {Undef, Str("embedding"), Str("bogus")},
     d \in {Undef, Str("backward")}}

EndJsons ==
  {[NoConstraintJson EXCEPT !.polymorphic = Bool(TRUE), !.multiplicity = Str("(1..*)")],
   [NoConstraintJson EXCEPT !.constraintClasses = Arr(<<Str("E1")>>)]}

Ends == {sourceOf("R1"), targetOf("R1")}

InitRelationship ==
  \E strength \in StrengthArgs, strengthDirection \in StrengthDirectionArgs :
    /\ heap = newRelationshipClass("R1", TheSchema, strength, strengthDirection, Undef)
    /\ last = [op |-> "new RelationshipClass", self |-> "R1",
               arg |-> [strength |-> strength, strengthDirection |-> strengthDirection],
               status |-> "ok", ret |-> Ref("R1")]

NextRelationship ==
  \/ \E jsonObj \in RelationshipJsons : RelationshipClassFromJson("R1", jsonObj)
  \/ \E name \in RelPropNames : CreatePrimitiveProperty("R1", name, Str("int"))
  \/ \E name \in RelPropNames :
       CreateNavigationProperty("R1", name, Ref("R1"), Enum("RelatedInstanceDirection.Forward"))
  \/ \E self \in Ends : AddClass(self, Ref("E1"))
  \/ \E self \in Ends, jsonObj \in EndJsons : ConstraintFromJson(self, jsonObj)

SpecRelationship == InitRelationship /\ [][NextRelationship]_vars

\* A constraint as the constructor of RelationshipConstraint leaves it.
FreshConstraint(c, relClass, relEnd) ==
  /\ c.relationshipEnd = Enum(relEnd)
  /\ c.relationshipClass = Ref(relClass)
  /\ c.multiplicity = RelationshipMultiplicity("0", "1")
  /\ c.polymorphic = Bool(FALSE)

\* C6: a RelationshipClass constructed without strength and
\* strengthDirection has strength Referencing and direction Forward and a
\* source and a target constraint of its own, of multiplicity 0..1 and not
\* polymorphic; whatever is done to the class and its constraints later,
\* source and target are the two objects the constructor made, one of each
\* end, and refer back to the class.
C6_RelationshipClass ==
  /\ (/\ last.op = "new RelationshipClass"
      /\ last.arg.strength = Undef
      /\ last.arg.strengthDirection = Undef)
     => /\ heap["R1"].strength = Enum("StrengthType.Referencing")
        /\ heap["R1"].strengthDirection = Enum("RelatedInstanceDirection.Forward")
        /\ FreshConstraint(heap[heap["R1"].source.v], "R1", "RelationshipEnd.Source")
        /\ FreshConstraint(heap[heap["R1"].target.v], "R1", "RelationshipEnd.Target")
  /\ heap["R1"].source = Ref("R1.source")
  /\ heap["R1"].target = Ref("R1.target")
  /\ heap["R1.source"].relationshipEnd = Enum("RelationshipEnd.Source")
  /\ heap["R1.target"].relationshipEnd = Enum("RelationshipEnd.Target")
  /\ heap["R1.source"].relationshipClass = Ref("R1")
  /\ heap["R1.target"].relationshipClass = Ref("R1")

\* The class was given a strength by fromJson and a property, both its
\* constraints were changed, and a constraint class was just added to its target.
C6_Witness ==
  /\ last.op = "addClass"
  /\ last.self = "R1.target"
  /\ heap["R1"].strength = Enum("StrengthType.Embedding")
  /\ PropertiesOf(heap, "R1") # <<>>
  /\ heap["R1.source"].polymorphic = Bool(TRUE)
  /\ ConstraintClassesOf(heap, "R1.target") # <<>>

====
